---- MODULE Spec2Model ----
(***************************************************************************)
(* The AnsibleKheops wrapper of plugins/plugin_utils/common.py: layered    *)
(* configuration, key parsing and the lookup with its remap step.          *)
(*                                                                         *)
(* Python values are tagged records.  A Python string is a sequence of     *)
(* letters, where a letter is either the separator "/" or a word that      *)
(* holds no separator ("default", "role", ...), so that split, format and  *)
(* concatenation are computed and never assumed.                           *)
(***************************************************************************)
EXTENDS Integers, Sequences, FiniteSets, TLC

VARIABLES
    pc,       \* "new" before __init__, "ready" after it returned, "failed" after it raised
    configs,  \* self.configs
    environ,  \* os.environ
    config,   \* self.config
    kheops,   \* TRUE when self.kheops holds a backend instance
    call      \* the last call made on the class or the wrapper, with its outcome

vars == <<pc, configs, environ, config, kheops, call>>

----------------------------------------------------------------------------
(* Python values *)

None == [t |-> "none"]
PyStr(s) == [t |-> "str", v |-> s]
PyInt(n) == [t |-> "int", v |-> n]
PyBool(b) == [t |-> "bool", v |-> b]
PyList(s) == [t |-> "list", v |-> s]
\* a dict keeps insertion order: a sequence of <<key, value>> pairs, keys distinct
PyDict(s) == [t |-> "dict", v |-> s]

IsStr(x) == x.t = "str"
IsDict(x) == x.t = "dict"
IsList(x) == x.t = "list"
IsNone(x) == x.t = "none"

\* bool(x)
Truthy(x) ==
    CASE x.t = "none" -> FALSE
      [] x.t = "bool" -> x.v
      [] x.t = "int" -> x.v # 0
      [] OTHER -> x.v # <<>>

\* str(x) as an f-string renders it, for the values keys are made of
Format(x) ==
    CASE x.t = "str" -> x.v
      [] x.t = "none" -> <<"None">>
      [] x.t = "bool" -> IF x.v THEN <<"True">> ELSE <<"False">>
      [] x.t = "int" -> <<ToString(x.v)>>
      [] OTHER -> <<"<object>">>

DictHas(d, k) == \E i \in 1..Len(d.v) : d.v[i][1] = k

DictIndex(d, k) == CHOOSE i \in 1..Len(d.v) : d.v[i][1] = k

\* d.get(k, default)
DictGet(d, k, default) == IF DictHas(d, k) THEN d.v[DictIndex(d, k)][2] ELSE default

\* d[k] = v: an existing key keeps its place, a new key goes last
DictSet(d, k, v) ==
    IF DictHas(d, k)
    THEN PyDict([d.v EXCEPT ![DictIndex(d, k)] = <<k, v>>])
    ELSE PyDict(Append(d.v, <<k, v>>))

\* del d[k], for a key that is present
DictDel(d, k) ==
    LET i == DictIndex(d, k)
    IN PyDict(SubSeq(d.v, 1, i - 1) \o SubSeq(d.v, i + 1, Len(d.v)))

DictKeys(d) == {d.v[i][1] : i \in 1..Len(d.v)}

\* the outcome of a call: a returned value or a raised exception
Ok(v) == [exc |-> "none", val |-> v]
Raise(e) == [exc |-> e, val |-> None]
Returned(r) == r.exc = "none"

----------------------------------------------------------------------------
(* Key and the key parser *)

KEY_NS_SEP == "/"

SplitMax == 3

HasSep(s) == \E i \in 1..Len(s) : s[i] = KEY_NS_SEP

FirstSep(s) == CHOOSE i \in 1..Len(s) : s[i] = KEY_NS_SEP /\ \A j \in 1..(i - 1) : s[j] # KEY_NS_SEP

\* s.split(KEY_NS_SEP, maxsplit)
RECURSIVE Split(_, _)
Split(s, maxsplit) ==
    IF maxsplit = 0 \/ ~HasSep(s)
    THEN <<s>>
    ELSE <<SubSeq(s, 1, FirstSep(s) - 1)>>
             \o Split(SubSeq(s, FirstSep(s) + 1, Len(s)), maxsplit - 1)

Key(key, remap, namespace) == [key |-> key, remap |-> remap, namespace |-> namespace]

\* show without the namespace
Show_Bare(k) == k.key

\* Key.show
Show(k) ==
    IF ~IsNone(k.namespace)
    THEN PyStr(Format(k.namespace) \o <<KEY_NS_SEP>> \o Format(k.key))
    ELSE k.key

\* parse_string with item.get("remap") in place of item.get("remap", key)
parse_string_RemapNone(item, default_namespace) ==
    IF IsStr(item)
    THEN LET parts == Split(item.v, SplitMax)
             n == Len(parts)
         IN Key(IF n > 1 THEN PyStr(parts[2]) ELSE PyStr(parts[1]),
                IF n > 2 THEN PyStr(parts[3]) ELSE None,
                IF n > 1 THEN PyStr(parts[1]) ELSE default_namespace)
    ELSE IF IsDict(item)
    THEN Key(DictGet(item, PyStr(<<"key">>), None),
             DictGet(item, PyStr(<<"remap">>), None),
             DictGet(item, PyStr(<<"namespace">>), default_namespace))
    ELSE Key(None, None, default_namespace)

\* AnsibleKheops.parse_string
parse_string(item, default_namespace) ==
    IF IsStr(item)
    THEN LET parts == Split(item.v, SplitMax)
             n == Len(parts)
         IN Key(IF n > 1 THEN PyStr(parts[2]) ELSE PyStr(parts[1]),
                IF n > 2 THEN PyStr(parts[3]) ELSE None,
                IF n > 1 THEN PyStr(parts[1]) ELSE default_namespace)
    ELSE IF IsDict(item)
    THEN LET key == DictGet(item, PyStr(<<"key">>), None)
         IN Key(key,
                DictGet(item, PyStr(<<"remap">>), key),
                DictGet(item, PyStr(<<"namespace">>), default_namespace))
    ELSE Key(None, None, default_namespace)

\* the loop over a list with keys.insert(0, ...) in place of keys.append(...)
parse_list_Reversed(items, namespace) ==
    [i \in 1..Len(items) |-> parse_string(items[Len(items) + 1 - i], namespace)]

\* the loop of parse_keys over a list: parse_string of each element
parse_list(items, namespace) == [i \in 1..Len(items) |-> parse_string(items[i], namespace)]

\* the item parse_keys builds from one (key, value) pair of a mapping
pair_item(key, value) ==
    IF Truthy(value) THEN PyStr(Format(key) \o <<KEY_NS_SEP>> \o Format(value)) ELSE key

\* parse_keys returning no keys, where it raises, for data of another type
parse_keys_NoRaise(data, namespace) ==
    IF IsStr(data)
    THEN Ok(<<parse_string(data, namespace)>>)
    ELSE IF IsList(data)
    THEN Ok(parse_list(data.v, namespace))
    ELSE IF IsDict(data)
    THEN IF \E i \in 1..Len(data.v) : Truthy(data.v[i][2]) /\ ~IsStr(data.v[i][2])
         THEN Raise("AssertionError")
         ELSE Ok([i \in 1..Len(data.v) |->
                    parse_string(pair_item(data.v[i][1], data.v[i][2]), namespace)])
    ELSE Ok(<<>>)

\* AnsibleKheops.parse_keys
parse_keys(data, namespace) ==
    IF IsStr(data)
    THEN Ok(<<parse_string(data, namespace)>>)
    ELSE IF IsList(data)
    THEN Ok(parse_list(data.v, namespace))
    ELSE IF IsDict(data)
    THEN IF \E i \in 1..Len(data.v) : Truthy(data.v[i][2]) /\ ~IsStr(data.v[i][2])
         THEN Raise("AssertionError")
         ELSE Ok([i \in 1..Len(data.v) |->
                    parse_string(pair_item(data.v[i][1], data.v[i][2]), namespace)])
    ELSE Raise("AnsibleError")

----------------------------------------------------------------------------
(* The layered configuration *)

S(w) == PyStr(<<w>>)

\* the options of DOCUMENTATION_OPTION_FRAGMENT with their declared defaults
default_config ==
    PyDict(<<
        <<S("config"), None>>,
        <<S("mode"), S("instance")>>,
        <<S("instance_config"), PyStr(<<"site", "/", "kheops.yml">>)>>,
        <<S("instance_namespace"), S("default")>>,
        <<S("instance_log_level"), S("WARNING")>>,
        <<S("instance_explain"), PyBool(FALSE)>>,
        <<S("namespace"), S("default")>>,
        <<S("scope"), PyDict(<< <<S("node"), S("inventory_hostname")>>,
                               <<S("groups"), S("group_names")>> >>)>>,
        <<S("keys"), None>>,
        <<S("process_scope"), S("jinja")>>,
        <<S("process_results"), S("none")>>,
        <<S("jinja2_native"), PyBool(FALSE)>>
    >>)

\* the items of get_config with the options it leaves out
env_items_All ==
    <<"config", "mode", "instance_config", "instance_namespace", "instance_log_level",
      "instance_explain", "namespace", "scope", "keys", "process_scope",
      "process_results", "jinja2_native">>

\* the options get_config reads from the environment, in its order
env_items ==
    <<"mode", "instance_config", "instance_namespace", "instance_log_level",
      "namespace", "scope", "keys">>

\* item.upper()
Upper(item) ==
    CASE item = "config" -> "CONFIG"
      [] item = "mode" -> "MODE"
      [] item = "instance_config" -> "INSTANCE_CONFIG"
      [] item = "instance_namespace" -> "INSTANCE_NAMESPACE"
      [] item = "instance_log_level" -> "INSTANCE_LOG_LEVEL"
      [] item = "instance_explain" -> "INSTANCE_EXPLAIN"
      [] item = "namespace" -> "NAMESPACE"
      [] item = "scope" -> "SCOPE"
      [] item = "keys" -> "KEYS"
      [] item = "process_scope" -> "PROCESS_SCOPE"
      [] item = "process_results" -> "PROCESS_RESULTS"
      [] item = "jinja2_native" -> "JINJA2_NATIVE"

\* "ANSIBLE_KHEOPS_" + item.upper()
envvar(item) == "ANSIBLE_KHEOPS_" \o Upper(item)

\* the files of the working directory, each with the document yaml.safe_load
\* reads from it; every other path is no file
Files ==
    (<<"site.yml">> :> PyDict(<< <<S("namespace"), S("site")>>,
                                 <<S("instance_log_level"), S("DEBUG")>> >>))
    @@ (<<"list.yml">> :> PyList(<<S("mode")>>))

\* os.path.isfile
isfile(path) == path \in DOMAIN Files

RECURSIVE DictUpdateFrom(_, _, _)
DictUpdateFrom(d, e, i) ==
    IF i > Len(e.v) THEN d ELSE DictUpdateFrom(DictSet(d, e.v[i][1], e.v[i][2]), e, i + 1)

\* d.update(e)
DictUpdate(d, e) == DictUpdateFrom(d, e, 1)

\* the loop of get_config over self.configs, from its i-th source on
RECURSIVE merge_configs(_, _, _)
merge_configs(srcs, i, merged) ==
    IF i > Len(srcs)
    THEN Ok(merged)
    ELSE LET c == srcs[i]
         IN IF IsStr(c)
            THEN IF isfile(c.v)
                 THEN IF IsDict(Files[c.v])
                      THEN merge_configs(srcs, i + 1, DictUpdate(merged, Files[c.v]))
                      ELSE Raise("AssertionError")
                 ELSE Raise("AnsibleError")
            ELSE IF IsDict(c)
            THEN merge_configs(srcs, i + 1, DictUpdate(merged, c))
            ELSE IF IsNone(c)
            THEN merge_configs(srcs, i + 1, merged)
            ELSE Raise("AssertionError")

\* the loop of get_config over the environment, from its i-th item on
RECURSIVE env_config(_, _, _)
env_config(env, i, acc) ==
    IF i > Len(env_items)
    THEN acc
    ELSE env_config(env, i + 1,
             IF envvar(env_items[i]) \in DOMAIN env
             THEN DictSet(acc, S(env_items[i]), PyStr(env[envvar(env_items[i])]))
             ELSE acc)

\* AnsibleKheops.get_config
get_config(srcs, env) ==
    LET merged == merge_configs(srcs, 1, PyDict(<<>>))
    IN IF ~Returned(merged)
       THEN merged
       ELSE Ok(DictUpdate(DictUpdate(DictUpdate(PyDict(<<>>), default_config),
                                     env_config(env, 1, PyDict(<<>>))),
                          merged.val))

\* the names logging.Logger.setLevel accepts
LevelNames == {"CRITICAL", "FATAL", "ERROR", "WARN", "WARNING", "INFO", "DEBUG", "NOTSET"}

\* logger.setLevel(level): the exception it raises, "none" when it returns
setLevel(level) ==
    IF IsStr(level)
    THEN IF Len(level.v) = 1 /\ level.v[1] \in LevelNames THEN "none" ELSE "ValueError"
    ELSE IF level.t = "int" THEN "none" ELSE "TypeError"

NoConfig == None

\* __init__ without the branch that refuses the client mode
init_body_ClientIgnored(cfg, started) ==
    LET mode == DictGet(cfg, S("mode"), None)
    IN IF mode = S("instance")
       THEN IF setLevel(DictGet(cfg, S("instance_log_level"), None)) # "none"
            THEN [ret |-> Raise(setLevel(DictGet(cfg, S("instance_log_level"), None))),
                  config |-> NoConfig, kheops |-> FALSE]
            ELSE IF ~started
            THEN [ret |-> Raise("KheopsError"), config |-> NoConfig, kheops |-> FALSE]
            ELSE [ret |-> Ok(None), config |-> cfg, kheops |-> TRUE]
       ELSE [ret |-> Ok(None), config |-> cfg, kheops |-> FALSE]

\* what __init__ does once get_config returned cfg; started tells whether the
\* constructor of the backend, Kheops(config=..., namespace=...), returns
init_body(cfg, started) ==
    LET mode == DictGet(cfg, S("mode"), None)
    IN IF mode = S("instance")
       THEN IF setLevel(DictGet(cfg, S("instance_log_level"), None)) # "none"
            THEN [ret |-> Raise(setLevel(DictGet(cfg, S("instance_log_level"), None))),
                  config |-> NoConfig, kheops |-> FALSE]
            ELSE IF ~started
            THEN [ret |-> Raise("KheopsError"), config |-> NoConfig, kheops |-> FALSE]
            ELSE [ret |-> Ok(None), config |-> cfg, kheops |-> TRUE]
       ELSE IF mode = S("client")
       THEN [ret |-> Raise("AnsibleError"), config |-> NoConfig, kheops |-> FALSE]
       ELSE [ret |-> Ok(None), config |-> cfg, kheops |-> FALSE]

\* the record of a call: what was called with what, its outcome, the calls it
\* made on the backend and the reply of the backend
Called(op, args, ret, backend, reply) ==
    [op |-> op, args |-> args, ret |-> ret, backend |-> backend, reply |-> reply]

NoCall == Called("none", <<>>, Ok(None), <<>>, Ok(None))

Init ==
    /\ pc = "new"
    /\ configs = <<>>
    /\ environ = [v \in {} |-> <<>>]
    /\ config = NoConfig
    /\ kheops = FALSE
    /\ call = NoCall

\* AnsibleKheops.__init__(configs=cfgs) in the environment env
Construct(cfgs, env, started) ==
    /\ pc = "new"
    /\ LET srcs == IF Truthy(cfgs) THEN cfgs.v ELSE <<>>
           got == get_config(srcs, env)
           done == IF Returned(got)
                   THEN init_body(got.val, started)
                   ELSE [ret |-> got, config |-> NoConfig, kheops |-> FALSE]
       IN /\ configs' = srcs
          /\ environ' = env
          /\ config' = done.config
          /\ kheops' = done.kheops
          /\ pc' = IF Returned(done.ret) THEN "ready" ELSE "failed"
          /\ call' = Called("__init__", <<cfgs>>, done.ret, <<>>, Ok(None))

\* the static method AnsibleKheops.parse_string
ParseString(item, namespace) ==
    /\ call' = Called("parse_string", <<item, namespace>>,
                       Ok(parse_string(item, namespace)), <<>>, Ok(None))
    /\ UNCHANGED <<pc, configs, environ, config, kheops>>

\* the class method AnsibleKheops.parse_keys
ParseKeys(data, namespace) ==
    /\ call' = Called("parse_keys", <<data, namespace>>,
                       parse_keys(data, namespace), <<>>, Ok(None))
    /\ UNCHANGED <<pc, configs, environ, config, kheops>>

----------------------------------------------------------------------------
(* lookup *)

\* the remap loop without its del ret[key.key]
RECURSIVE remap_output_NoDel(_, _, _)
remap_output_NoDel(keys_config, i, ret) ==
    IF i > Len(keys_config)
    THEN Ok(ret)
    ELSE LET key == keys_config[i]
         IN IF ~IsNone(key.remap) /\ key.remap # key.key
            THEN IF ~IsDict(ret)
                 THEN Raise("TypeError")
                 ELSE IF ~DictHas(ret, key.key)
                 THEN Raise("KeyError")
                 ELSE remap_output_NoDel(keys_config, i + 1,
                          DictSet(ret, key.remap, DictGet(ret, key.key, None)))
            ELSE remap_output_NoDel(keys_config, i + 1, ret)

\* the remap loop of lookup over keys_config, from its i-th key on: the
\* mapping the loop leaves, or the exception ret[key.key] raises
RECURSIVE remap_output(_, _, _)
remap_output(keys_config, i, ret) ==
    IF i > Len(keys_config)
    THEN Ok(ret)
    ELSE LET key == keys_config[i]
         IN IF ~IsNone(key.remap) /\ key.remap # key.key
            THEN IF ~IsDict(ret)
                 THEN Raise("TypeError")
                 ELSE IF ~DictHas(ret, key.key)
                 THEN Raise("KeyError")
                 ELSE remap_output(keys_config, i + 1,
                          DictDel(DictSet(ret, key.remap, DictGet(ret, key.key, None)),
                                  key.key))
            ELSE remap_output(keys_config, i + 1, ret)

\* the arguments lookup resolves against the configuration
effective(arg, option) == IF Truthy(arg) THEN arg ELSE DictGet(config, S(option), None)

effective_explain(explain) ==
    IF IsNone(explain) THEN DictGet(config, S("instance_explain"), None) ELSE explain

\* the call lookup makes on the backend
backend_call(keys_config, scope, explain) ==
    [op |-> "lookup",
     keys |-> [i \in 1..Len(keys_config) |-> Show(keys_config[i])],
     scope |-> scope,
     explain |-> explain,
     namespace_prefix |-> FALSE]

\* lookup after keys_config is parsed; reply is the outcome of self.kheops.lookup
lookup_body(keys_config, scope, explain, reply) ==
    IF ~kheops
    THEN [ret |-> Raise("AttributeError"), backend |-> <<>>]
    ELSE LET sent == <<backend_call(keys_config, scope, explain)>>
         IN IF ~Returned(reply)
            THEN [ret |-> reply, backend |-> sent]
            ELSE LET out == remap_output(keys_config, 1, reply.val)
                 IN IF ~Returned(out)
                    THEN [ret |-> out, backend |-> sent]
                    ELSE [ret |-> Ok(IF Truthy(out.val) THEN out.val ELSE PyDict(<<>>)),
                          backend |-> sent]

\* AnsibleKheops.lookup
lookup(keys, namespace, scope, explain, reply) ==
    LET parsed == parse_keys(effective(keys, "keys"), effective(namespace, "namespace"))
    IN IF ~Returned(parsed)
       THEN [ret |-> parsed, backend |-> <<>>]
       ELSE lookup_body(parsed.val, effective(scope, "scope"), effective_explain(explain),
                        reply)

\* the keys a reply of the backend may hold for the parsed keys: each key as
\* it was queried and each bare key name
RECURSIVE ReplyKeys(_, _, _)
ReplyKeys(keys_config, i, acc) ==
    IF i > Len(keys_config)
    THEN acc
    ELSE LET new == SelectSeq(<<keys_config[i].key, Show(keys_config[i])>>,
                              LAMBDA k : IsStr(k) /\ \A j \in 1..Len(acc) : acc[j] # k)
             one == IF Len(new) = 2 /\ new[1] = new[2] THEN <<new[1]>> ELSE new
         IN ReplyKeys(keys_config, i + 1, acc \o one)

\* the value the backend holds for a key
ValueOf(k) == PyStr(<<"value of">> \o k.v)

\* the replies of self.kheops.lookup: an exception, nothing, or a mapping
\* holding any of the keys above
Replies(keys_config) ==
    LET cand == ReplyKeys(keys_config, 1, <<>>)
        Pick(sub) == SelectSeq([i \in 1..Len(cand) |-> <<cand[i], ValueOf(cand[i])>>],
                               LAMBDA p : p[1] \in sub)
    IN {Raise("KheopsError"), Ok(None)}
          \cup {Ok(PyDict(Pick(sub))) : sub \in SUBSET {cand[i] : i \in 1..Len(cand)}}

\* the replies the backend may give to lookup(keys, namespace, ...)
RepliesTo(keys, namespace) ==
    IF pc # "ready"
    THEN {}
    ELSE LET parsed == parse_keys(effective(keys, "keys"),
                                  effective(namespace, "namespace"))
         IN IF Returned(parsed) /\ kheops THEN Replies(parsed.val) ELSE {Ok(None)}

\* lookup keeping the scope it resolved as the configured scope
Lookup_KeepsScope(keys, namespace, scope, explain, reply) ==
    /\ pc = "ready"
    /\ LET done == lookup(keys, namespace, scope, explain, reply)
       IN call' = Called("lookup", <<keys, namespace, scope, explain>>,
                         done.ret, done.backend, reply)
    /\ config' = DictSet(config, S("scope"), effective(scope, "scope"))
    /\ UNCHANGED <<pc, configs, environ, kheops>>

\* wrapper.lookup(keys, namespace, scope, explain), the backend answering reply
Lookup(keys, namespace, scope, explain, reply) ==
    /\ pc = "ready"
    /\ LET done == lookup(keys, namespace, scope, explain, reply)
       IN call' = Called("lookup", <<keys, namespace, scope, explain>>,
                         done.ret, done.backend, reply)
    /\ UNCHANGED <<pc, configs, environ, config, kheops>>

----------------------------------------------------------------------------
(* The inputs and the specifications *)

MaxLen == 4
MaxKeys == 2
MaxSources == 2

Letters == {"a", "b", KEY_NS_SEP}

SeqsUpTo(set, n) == UNION {[1..m -> set] : m \in 0..n}

\* every string of at most MaxLen letters
Strings == {PyStr(s) : s \in SeqsUpTo(Letters, MaxLen)}

\* a mapping with any of the given fields, in their order, each with any of the values
Mappings(fields, values) ==
    LET Missing == [t |-> "missing"]
        Choice == [1..Len(fields) -> values \cup {Missing}]
        Build(c) == LET idx == SelectSeq([i \in 1..Len(fields) |-> i],
                                         LAMBDA i : c[i] # Missing)
                    IN PyDict([j \in 1..Len(idx) |-> <<S(fields[idx[j]]), c[idx[j]]>>])
    IN {Build(c) : c \in Choice}

FieldValues == {None, PyStr(<<>>), S("a"), S("b")}

KeyMappings == Mappings(<<"key", "remap", "namespace">>, FieldValues)

Namespaces == {None, S("default")}

\* what parse_string is given
ParseItems == Strings \cup KeyMappings \cup {None, PyInt(5), PyList(<<S("a")>>)}

\* the elements of the lists parse_keys is given
ListItems ==
    {S("a"), PyStr(<<"n", "/", "a">>), PyStr(<<"n", "/", "a", "/", "b">>),
     PyDict(<< <<S("key"), S("a")>> >>),
     PyDict(<< <<S("key"), S("a")>>, <<S("remap"), S("b")>> >>),
     PyDict(<< <<S("remap"), S("b")>> >>),
     PyInt(5)}

\* the values of the mappings parse_keys is given
PairValues ==
    {None, PyStr(<<>>), S("b"), PyStr(<<"b", "/", "c">>), PyInt(0), PyInt(5),
     PyList(<<S("b")>>)}

PairKeys == {S("a"), S("n")}

Distinct(s) == \A i, j \in 1..Len(s) : i # j => s[i] # s[j]

KeyPairs ==
    {PyDict([i \in 1..Len(ks) |-> <<ks[i], vs[i]>>]) :
        <<ks, vs>> \in {p \in SeqsUpTo(PairKeys, MaxKeys) \X SeqsUpTo(PairValues, MaxKeys) :
                          Len(p[1]) = Len(p[2]) /\ Distinct(p[1])}}

\* what parse_keys is given
ParseData ==
    {S("a"), PyStr(<<"n", "/", "a", "/", "b">>), None, PyInt(5)}
        \cup {PyList(l) : l \in SeqsUpTo(ListItems, MaxKeys)}
        \cup KeyPairs

\* One call of the parser in each behaviour: a call reads nothing a call
\* before it wrote, so the states of longer behaviours are the same states.
NextParse ==
    \/ /\ call.op = "none"
       /\ \E item \in ParseItems, namespace \in Namespaces : ParseString(item, namespace)
    \/ /\ call.op = "none"
       /\ \E data \in ParseData, namespace \in Namespaces : ParseKeys(data, namespace)

SpecParse == Init /\ [][NextParse]_vars

\* the sources a wrapper is constructed from
Sources ==
    {None, PyStr(<<>>), PyStr(<<"site.yml">>), PyStr(<<"list.yml">>), PyStr(<<"nofile.yml">>),
     PyInt(5),
     PyDict(<< <<S("mode"), S("client")>> >>),
     PyDict(<< <<S("mode"), S("instance")>>, <<S("namespace"), S("n")>> >>),
     PyDict(<< <<S("namespace"), None>>, <<S("process_scope"), S("vars")>>,
               <<S("extra"), S("x")>> >>),
     PyDict(<< <<S("instance_log_level"), S("LOUD")>> >>)}

ConfigLists == {None} \cup {PyList(l) : l \in SeqsUpTo(Sources, MaxSources)}

\* the environments a wrapper is constructed in
Environments ==
    {[v \in {} |-> <<>>],
     "ANSIBLE_KHEOPS_MODE" :> <<"client">>,
     "ANSIBLE_KHEOPS_MODE" :> <<"remote">>,
     ("ANSIBLE_KHEOPS_NAMESPACE" :> <<"env">>) @@ ("ANSIBLE_KHEOPS_KEYS" :> <<"a", "/", "b">>),
     ("ANSIBLE_KHEOPS_PROCESS_SCOPE" :> <<"vars">>)
         @@ ("ANSIBLE_KHEOPS_INSTANCE_EXPLAIN" :> <<"true">>)
         @@ ("ANSIBLE_KHEOPS_DEFAULT_NAMESPACE" :> <<"env">>)
         @@ ("ANSIBLE_KHEOPS_INSTANCE_LOG_LEVEL" :> <<"INFO">>)
         @@ ("ANSIBLE_KHEOPS_KEYS" :> <<"a", "/", "b">>)}

\* One construction, and one lookup on the wrapper it returned.
NextConfig ==
    \/ \E cfgs \in ConfigLists, env \in Environments, started \in BOOLEAN :
          Construct(cfgs, env, started)
    \/ /\ call.op = "__init__"
       /\ \E reply \in RepliesTo(S("a"), None) : Lookup(S("a"), None, None, None, reply)

SpecConfig == Init /\ [][NextConfig]_vars

----------------------------------------------------------------------------
(* The key parser: C4 to C7 *)

ParsedOne == call.op = "parse_string" /\ Returned(call.ret)
ParsedMany == call.op = "parse_keys" /\ Returned(call.ret)

\* x or y
OrElse(x, y) == IF Truthy(x) THEN x ELSE y

\* C4: no KeySpec that parse_string or parse_keys returns has a null key;
\* input that gives no key is rejected with an error.
C4_KeyNeverNull ==
    /\ ParsedOne => ~IsNone(call.ret.val.key)
    /\ ParsedMany => \A i \in 1..Len(call.ret.val) : ~IsNone(call.ret.val[i].key)

\* C5: parse_string splits a string into at most 3 parts, the text after the
\* second separator being the third part: 1 part is the key in the default
\* namespace, 2 parts are namespace and key, 3 parts are namespace, key and remap.
C5_SplitAtMostThree ==
    (ParsedOne /\ IsStr(call.args[1])) =>
        LET parts == Split(call.args[1].v, 2)
            got == call.ret.val
        IN /\ Len(parts) = 1 => got = Key(PyStr(parts[1]), None, call.args[2])
           /\ Len(parts) = 2 => got = Key(PyStr(parts[2]), None, PyStr(parts[1]))
           /\ Len(parts) = 3 => got = Key(PyStr(parts[2]), PyStr(parts[3]), PyStr(parts[1]))

\* C6 as stated: on a mapping, key = item.key, remap = item.remap or key,
\* namespace = item.namespace or the default namespace.
C6_NullFallsBack ==
    (ParsedOne /\ IsDict(call.args[1])) =>
        LET item == call.args[1]
            key == DictGet(item, S("key"), None)
        IN call.ret.val = Key(key,
                              OrElse(DictGet(item, S("remap"), None), key),
                              OrElse(DictGet(item, S("namespace"), None), call.args[2]))

\* C6, amended: on a mapping, key = item.key; remap is the remap entry when
\* the mapping has one, even a null one, and key when it has none; namespace
\* is the namespace entry when the mapping has one, even a null one, and the
\* default namespace when it has none.
C6_MissingFallsBack ==
    (ParsedOne /\ IsDict(call.args[1])) =>
        LET item == call.args[1]
            got == call.ret.val
            Entry(f) == item.v[CHOOSE i \in 1..Len(item.v) : item.v[i][1] = S(f)][2]
            Has(f) == \E i \in 1..Len(item.v) : item.v[i][1] = S(f)
        IN /\ got.key = IF Has("key") THEN Entry("key") ELSE None
           /\ got.remap = IF Has("remap") THEN Entry("remap") ELSE got.key
           /\ got.namespace = IF Has("namespace") THEN Entry("namespace") ELSE call.args[2]

\* a mapping with a key and no remap entry was parsed in a default namespace
C6_Witness ==
    /\ ParsedOne
    /\ call.args[1] = PyDict(<< <<S("key"), S("a")>> >>)
    /\ call.args[2] = S("default")
    /\ call.ret.val = Key(S("a"), S("a"), S("default"))

\* what C7 says of parse_keys on one (k, v) pair of a mapping
C7_PairItem(k, v) ==
    IF IsStr(v) /\ v.v # <<>> THEN PyStr(k.v \o <<KEY_NS_SEP>> \o v.v) ELSE k

\* C7 as stated: parse_keys is parse_string of each element in input order:
\* of the string itself, of each element of a sequence, and for each (k, v)
\* of a mapping of "k/v" when v is a non-empty string and of k for every other v.
C7_EveryOtherValue ==
    (call.op = "parse_keys" /\ (IsStr(call.args[1]) \/ IsList(call.args[1]) \/ IsDict(call.args[1]))) =>
        LET data == call.args[1]
            ns == call.args[2]
        IN /\ Returned(call.ret)
           /\ IsStr(data) => call.ret.val = <<parse_string(data, ns)>>
           /\ IsList(data) =>
                /\ Len(call.ret.val) = Len(data.v)
                /\ \A i \in 1..Len(data.v) : call.ret.val[i] = parse_string(data.v[i], ns)
           /\ IsDict(data) =>
                /\ Len(call.ret.val) = Len(data.v)
                /\ \A i \in 1..Len(data.v) :
                      call.ret.val[i] = parse_string(C7_PairItem(data.v[i][1], data.v[i][2]), ns)

\* C7, amended: as above, but in a mapping k alone is parsed only for a v
\* that is falsy (null, empty string, 0, empty container); a truthy v that is
\* not a string makes parse_keys fail with an assertion error.
C7_ElementWise ==
    (call.op = "parse_keys" /\ (IsStr(call.args[1]) \/ IsList(call.args[1]) \/ IsDict(call.args[1]))) =>
        LET data == call.args[1]
            ns == call.args[2]
            Bad(v) == Truthy(v) /\ ~IsStr(v)
        IN /\ IsStr(data) => call.ret = Ok(<<parse_string(data, ns)>>)
           /\ IsList(data) =>
                /\ Returned(call.ret)
                /\ Len(call.ret.val) = Len(data.v)
                /\ \A i \in 1..Len(data.v) : call.ret.val[i] = parse_string(data.v[i], ns)
           /\ (IsDict(data) /\ \E i \in 1..Len(data.v) : Bad(data.v[i][2])) =>
                call.ret = Raise("AssertionError")
           /\ (IsDict(data) /\ \A i \in 1..Len(data.v) : ~Bad(data.v[i][2])) =>
                /\ Returned(call.ret)
                /\ Len(call.ret.val) = Len(data.v)
                /\ \A i \in 1..Len(data.v) :
                      call.ret.val[i] = parse_string(C7_PairItem(data.v[i][1], data.v[i][2]), ns)

\* a mapping of two pairs, the first with a suffix and the second with a
\* falsy value that is no string, was parsed in order
C7_Witness ==
    /\ ParsedMany
    /\ call.args[1] = PyDict(<< <<S("n"), S("b")>>, <<S("a"), PyInt(0)>> >>)
    /\ call.ret.val = <<Key(S("b"), None, S("n")), Key(S("a"), None, call.args[2])>>

----------------------------------------------------------------------------
(* The configuration: C8 to C10 *)

Constructed == call.op = "__init__"

\* the mapping a source that get_config accepted stands for
C8_Data(src) == IF IsStr(src) THEN Files[src.v] ELSE src

\* the environment variable of each option the environment may override
C8_EnvName ==
    (S("mode") :> "ANSIBLE_KHEOPS_MODE")
    @@ (S("instance_config") :> "ANSIBLE_KHEOPS_INSTANCE_CONFIG")
    @@ (S("instance_namespace") :> "ANSIBLE_KHEOPS_INSTANCE_NAMESPACE")
    @@ (S("instance_log_level") :> "ANSIBLE_KHEOPS_INSTANCE_LOG_LEVEL")
    @@ (S("namespace") :> "ANSIBLE_KHEOPS_NAMESPACE")
    @@ (S("scope") :> "ANSIBLE_KHEOPS_SCOPE")
    @@ (S("keys") :> "ANSIBLE_KHEOPS_KEYS")

C9_BlankIgnored ==
    Constructed =>
        LET kept == SelectSeq(configs, LAMBDA c : c # None /\ c # PyStr(<<>>))
        IN /\ get_config(configs, environ) = get_config(kept, environ)
           /\ get_config(configs, environ) = Raise("AnsibleError") =>
                \E i \in 1..Len(kept) : IsStr(kept[i]) /\ ~isfile(kept[i].v)

\* the effective mode of the wrapper under construction is 'client'
C10_ClientMode ==
    /\ call.op # "none"
    /\ Returned(get_config(configs, environ))
    /\ DictGet(get_config(configs, environ).val, S("mode"), None) = S("client")

\* C10: when the effective mode is 'client', construction fails with the
\* 'not implemented' AnsibleError: no wrapper is returned, it holds no
\* backend and no configuration, and no lookup is performed on it.
C10_ClientFails ==
    C10_ClientMode =>
        /\ pc = "failed"
        /\ call = Called("__init__", call.args, Raise("AnsibleError"), <<>>, Ok(None))
        /\ ~kheops
        /\ config = NoConfig

\* a construction whose mode 'client' comes from the environment, with a
\* source that does not set the mode, has failed
C10_Witness ==
    /\ C10_ClientMode
    /\ "ANSIBLE_KHEOPS_MODE" \in DOMAIN environ
    /\ Len(configs) = 1 /\ configs[1] = PyStr(<<"site.yml">>)
    /\ pc = "failed"

----------------------------------------------------------------------------
(* lookup and its remap step: C1 to C3 *)

\* the elements of the lists lookup is given
LookupItems ==
    {S("a"),
     PyStr(<<"n", "/", "a", "/", "b">>),
     PyDict(<< <<S("key"), S("a")>>, <<S("remap"), S("b")>> >>),
     PyDict(<< <<S("key"), S("b")>>, <<S("remap"), S("c")>>, <<S("namespace"), S("n")>> >>),
     PyDict(<< <<S("key"), S("b")>> >>)}

\* the keys lookup is given
LookupKeys ==
    {None, PyInt(5), S("a"), PyStr(<<"n", "/", "a", "/", "b">>),
     PyDict(<< <<S("n"), PyStr(<<"a", "/", "b">>)>>, <<S("b"), None>> >>)}
        \cup {PyList(l) : l \in SeqsUpTo(LookupItems, MaxKeys)}

LookupNamespaces == {None, S("n")}

LookupScopes == {None, PyDict(<< <<S("node"), S("host1")>> >>)}

LookupExplains == {None, PyBool(TRUE)}

\* the sources of the wrappers lookup is called on
LookupConfigs ==
    {None,
     PyList(<<PyDict(<< <<S("keys"), S("b")>>, <<S("namespace"), None>>,
                        <<S("instance_explain"), PyBool(TRUE)>> >>)>>),
     PyList(<<PyDict(<< <<S("mode"), S("remote")>> >>)>>),
     PyList(<<PyDict(<< <<S("mode"), S("client")>> >>)>>)}

\* One construction, and one lookup on the wrapper it returned: a lookup
\* changes nothing but the record of the call, so the states of longer
\* behaviours are the same states.
Next ==
    \/ \E cfgs \in LookupConfigs, started \in BOOLEAN :
          Construct(cfgs, [v \in {} |-> <<>>], started)
    \/ /\ call.op = "__init__"
       /\ \E keys \in LookupKeys, namespace \in LookupNamespaces,
             scope \in LookupScopes, explain \in LookupExplains :
             \E reply \in RepliesTo(keys, namespace) :
                Lookup(keys, namespace, scope, explain, reply)

Spec == Init /\ [][Next]_vars

\* a lookup has called the backend and the backend has returned
Answered == call.op = "lookup" /\ Len(call.backend) = 1 /\ Returned(call.reply)

\* the KeySpecs of the lookup
Parsed ==
    parse_keys(effective(call.args[1], "keys"), effective(call.args[2], "namespace")).val

Remaps(k) == ~IsNone(k.remap) /\ k.remap # k.key

\* the lookup asked for one KeySpec, with a namespace and a remap that
\* differs from its key
C1_OneRemap ==
    /\ Answered
    /\ Len(Parsed) = 1 /\ ~IsNone(Parsed[1].namespace) /\ Remaps(Parsed[1])

\* C1 as stated: for one KeySpec with namespace ns, key k and remap r # k, a
\* reply keyed by the fully-qualified key "ns/k" is returned with its value
\* under r and without the original entry.
C1_QualifiedReply ==
    (C1_OneRemap /\ IsDict(call.reply.val) /\ DictHas(call.reply.val, Show(Parsed[1]))) =>
        /\ Returned(call.ret)
        /\ DictGet(call.ret.val, Parsed[1].remap, None)
             = DictGet(call.reply.val, Show(Parsed[1]), None)
        /\ ~DictHas(call.ret.val, Show(Parsed[1]))

\* C1, amended: for one KeySpec with namespace ns, key k and remap r # k, a
\* reply keyed by the bare key k is returned with its value under r and
\* without an entry under k.
C1_BareReply ==
    (C1_OneRemap /\ IsDict(call.reply.val) /\ DictHas(call.reply.val, Parsed[1].key)) =>
        /\ Returned(call.ret)
        /\ DictHas(call.ret.val, Parsed[1].remap)
        /\ DictGet(call.ret.val, Parsed[1].remap, None)
             = DictGet(call.reply.val, Parsed[1].key, None)
        /\ ~DictHas(call.ret.val, Parsed[1].key)

\* the mapping {key: b, remap: c, namespace: n} was looked up, the backend
\* was asked for "n/b" and replied {b: v}, and {c: v} was returned
C1_Witness ==
    /\ C1_OneRemap
    /\ Parsed[1] = Key(S("b"), S("c"), S("n"))
    /\ call.backend[1].keys = <<PyStr(<<"n", "/", "b">>)>>
    /\ call.reply = Ok(PyDict(<< <<S("b"), ValueOf(S("b"))>> >>))
    /\ call.ret = Ok(PyDict(<< <<S("c"), ValueOf(S("b"))>> >>))

\* no two KeySpecs ask for the same key, and no remap is another's key or remap
C2_NoCollision(ks) ==
    /\ Distinct([i \in 1..Len(ks) |-> ks[i].key])
    /\ \A i, j \in 1..Len(ks) :
          (i # j /\ Remaps(ks[i])) => ks[i].remap # ks[j].key /\ ks[i].remap # ks[j].remap

\* C2: for KeySpecs that do not collide, every KeySpec whose remap differs
\* from its key and whose key is in the reply has its value returned under
\* remap and no entry under the key; the entry of every other KeySpec is
\* returned unchanged.
C2_RemapRemoves ==
    (Answered /\ IsDict(call.reply.val) /\ C2_NoCollision(Parsed)) =>
        \A i \in 1..Len(Parsed) :
            DictHas(call.reply.val, Parsed[i].key) =>
                /\ Returned(call.ret)
                /\ IF Remaps(Parsed[i])
                   THEN /\ DictGet(call.ret.val, Parsed[i].remap, None)
                             = DictGet(call.reply.val, Parsed[i].key, None)
                        /\ ~DictHas(call.ret.val, Parsed[i].key)
                   ELSE DictGet(call.ret.val, Parsed[i].key, None)
                             = DictGet(call.reply.val, Parsed[i].key, None)

\* C3: a lookup the backend answered returns: an empty mapping when the
\* reply is nothing, and else the reply without the keys it omits.
C3_AbsenceNotError ==
    Answered =>
        /\ Returned(call.ret)
        /\ IsDict(call.ret.val)
        /\ ~Truthy(call.reply.val) => call.ret.val = PyDict(<<>>)
        /\ \A i \in 1..Len(Parsed) :
              (IsDict(call.reply.val) /\ ~DictHas(call.reply.val, Parsed[i].key)) =>
                  ~DictHas(call.ret.val, Parsed[i].key)

----------------------------------------------------------------------------
(* The calls lookup makes on the backend: C11, C16, C17 *)

\* the keys lookup parses: its argument, or the configured keys in its place
EffectiveKeys == effective(call.args[1], "keys")

\* C11: a lookup whose effective keys (the argument, or the configured keys
\* when the argument is absent) are not a string, a list or a mapping raises
\* AnsibleError, and makes no call on the backend.
C11_InvalidKeys ==
    (call.op = "lookup" /\ ~IsStr(EffectiveKeys) /\ ~IsList(EffectiveKeys)
        /\ ~IsDict(EffectiveKeys)) =>
        /\ call.ret = Raise("AnsibleError")
        /\ call.backend = <<>>

\* lookup was called without keys on a wrapper that holds a backend and has
\* no configured keys, and raised AnsibleError
C11_Witness ==
    /\ call.op = "lookup"
    /\ kheops
    /\ IsNone(call.args[1])
    /\ IsNone(EffectiveKeys)
    /\ call.ret = Raise("AnsibleError")
    /\ call.backend = <<>>

\* C17: a wrapper whose construction returned holds a backend, whatever the
\* mode it was configured with, and a lookup on it never fails for want of one.
C17_BackendHeld ==
    /\ pc = "ready" => kheops
    /\ call.op = "lookup" => call.ret # Raise("AttributeError")

\* a lookup has returned
LookupReturned == call.op = "lookup" /\ Returned(call.ret)

\* the scope and the explain flag a lookup is to pass on: the argument, or
\* the configured value in its place
C16_Scope == IF IsNone(call.args[3]) THEN DictGet(config, S("scope"), None) ELSE call.args[3]

C16_Explain ==
    IF IsNone(call.args[4]) THEN DictGet(config, S("instance_explain"), None) ELSE call.args[4]

\* namespace + '/' + key
C16_Qualified(k) == PyStr(Format(k.namespace) \o <<KEY_NS_SEP>> \o Format(k.key))

----------------------------------------------------------------------------
(* The scope builders *)

\* host_vars.get(val, None) raising KeyError for a variable that is not set
get_scope_from_host_inventory_Strict(host_vars, scope) ==
    LET spec == effective(scope, "scope")
    IN IF ~IsDict(spec)
       THEN Raise("AttributeError")
       ELSE IF spec.v = <<>>
       THEN Ok(PyDict(<<>>))
       ELSE IF ~IsDict(host_vars)
       THEN Raise("AttributeError")
       ELSE IF \E i \in 1..Len(spec.v) : IsList(spec.v[i][2]) \/ IsDict(spec.v[i][2])
       THEN Raise("TypeError")
       ELSE IF \E i \in 1..Len(spec.v) : ~DictHas(host_vars, spec.v[i][2])
       THEN Raise("KeyError")
       ELSE Ok(PyDict([i \in 1..Len(spec.v) |->
                         <<spec.v[i][1], DictGet(host_vars, spec.v[i][2], None)>>]))

\* AnsibleKheops.get_scope_from_host_inventory: scope.items() needs a
\* mapping, host_vars.get a mapping and a hashable name
get_scope_from_host_inventory(host_vars, scope) ==
    LET spec == effective(scope, "scope")
    IN IF ~IsDict(spec)
       THEN Raise("AttributeError")
       ELSE IF spec.v = <<>>
       THEN Ok(PyDict(<<>>))
       ELSE IF ~IsDict(host_vars)
       THEN Raise("AttributeError")
       ELSE IF \E i \in 1..Len(spec.v) : IsList(spec.v[i][2]) \/ IsDict(spec.v[i][2])
       THEN Raise("TypeError")
       ELSE Ok(PyDict([i \in 1..Len(spec.v) |->
                         <<spec.v[i][1], DictGet(host_vars, spec.v[i][2], None)>>]))

\* A template engine is known by the expressions it cannot render: those
\* that name a variable that is not defined, and those it fails on otherwise.
Templar(undefined, broken) == [t |-> "templar", undefined |-> undefined, broken |-> broken]

\* the text an expression renders to
Rendered(value) == PyStr(<<"rendering of">> \o value.v)

\* _templar.template(value, ...)
template(templar, value) ==
    IF ~IsStr(value)
    THEN Ok(value)
    ELSE IF value \in templar.broken
    THEN Raise("AnsibleError")
    ELSE IF value \in templar.undefined
    THEN Raise("AnsibleUndefinedVariable")
    ELSE Ok(Rendered(value))

\* the loop of get_scope_from_jinja with a handler that keeps the value of
\* the field, in place of the handler that raises again
RECURSIVE render_scope_Keep(_, _, _, _, _)
render_scope_Keep(templar, native, items, i, ret) ==
    IF i > Len(items)
    THEN Ok(ret)
    ELSE LET res == template(templar, items[i][2])
         IN IF res = Raise("AnsibleError")
            THEN res
            ELSE IF ~Returned(res)
            THEN render_scope_Keep(templar, native, items, i + 1,
                                   DictSet(ret, items[i][1], items[i][2]))
            ELSE render_scope_Keep(templar, native, items, i + 1,
                     DictSet(ret, items[i][1],
                             IF native THEN PyStr(Format(res.val)) ELSE res.val))

\* the loop of get_scope_from_jinja over the items of the scope, from the
\* i-th on: AnsibleUndefinedVariable is logged and raised again, no other
\* exception is caught; native tells whether res is made a NativeJinjaText
RECURSIVE render_scope(_, _, _, _, _)
render_scope(templar, native, items, i, ret) ==
    IF i > Len(items)
    THEN Ok(ret)
    ELSE LET res == template(templar, items[i][2])
         IN IF ~Returned(res)
            THEN res
            ELSE render_scope(templar, native, items, i + 1,
                     DictSet(ret, items[i][1],
                             IF native THEN PyStr(Format(res.val)) ELSE res.val))

\* AnsibleKheops.get_scope_from_jinja; use_native is USE_JINJA2_NATIVE
get_scope_from_jinja(host_vars, templar, scope, jinja2_native, use_native) ==
    LET spec == effective(scope, "scope")
    IN IF IsNone(templar)
       THEN Raise("AttributeError")
       ELSE IF ~IsDict(spec)
       THEN Raise("AttributeError")
       ELSE render_scope(templar, use_native /\ ~jinja2_native, spec.v, 1, PyDict(<<>>))

\* wrapper.get_scope_from_host_inventory(host_vars, scope)
GetScopeFromHostInventory(host_vars, scope) ==
    /\ pc = "ready"
    /\ call' = Called("get_scope_from_host_inventory", <<host_vars, scope>>,
                       get_scope_from_host_inventory(host_vars, scope), <<>>, Ok(None))
    /\ UNCHANGED <<pc, configs, environ, config, kheops>>

\* wrapper.get_scope_from_jinja(host_vars, templar, scope, jinja2_native)
GetScopeFromJinja(host_vars, templar, scope, jinja2_native, use_native) ==
    /\ pc = "ready"
    /\ call' = Called("get_scope_from_jinja", <<host_vars, templar, scope, jinja2_native>>,
                       get_scope_from_jinja(host_vars, templar, scope, jinja2_native,
                                            use_native),
                       <<>>, Ok(None))
    /\ UNCHANGED <<pc, configs, environ, config, kheops>>

----------------------------------------------------------------------------
(* super_lookup *)

\* the scope super_lookup builds; a Templar object is true, None is not
build_scope(scope, templar, variables, process_scope, jinja2_native, use_native) ==
    IF process_scope = S("vars")
    THEN get_scope_from_host_inventory(variables, scope)
    ELSE IF process_scope = S("jinja")
    THEN IF IsNone(templar)
         THEN Raise("AssertionError")
         ELSE get_scope_from_jinja(variables, templar, scope, jinja2_native, use_native)
    ELSE Ok(scope)

\* AnsibleKheops.super_lookup: reply is the outcome of self.kheops.lookup
\* and rendering that of _templar.template(ret, ...); the function ends
\* without a return statement, so that it returns None
super_lookup(keys, namespace, scope, templar, variables, process_scope, process_results, jinja2_native, use_native, reply, rendering) ==
    LET built == build_scope(effective(scope, "scope"), templar, variables,
                             effective(process_scope, "process_scope"),
                             jinja2_native, use_native)
    IN IF ~Returned(built)
       THEN [ret |-> built, backend |-> <<>>]
       ELSE LET done == lookup(keys, namespace, built.val, None, reply)
            IN IF ~Returned(done.ret)
               THEN done
               ELSE IF effective(process_results, "process_results") # S("jinja")
               THEN [ret |-> Ok(None), backend |-> done.backend]
               ELSE IF IsNone(templar)
               THEN [ret |-> Raise("AttributeError"), backend |-> done.backend]
               ELSE IF ~Returned(rendering)
               THEN [ret |-> rendering, backend |-> done.backend]
               ELSE [ret |-> Ok(None), backend |-> done.backend]

\* the replies the backend may give within super_lookup: it is asked
\* nothing when the scope is not built
SuperRepliesTo(keys, namespace, scope, templar, variables, process_scope) ==
    IF pc # "ready"
    THEN {}
    ELSE IF Returned(build_scope(effective(scope, "scope"), templar, variables,
                                 effective(process_scope, "process_scope"), FALSE, FALSE))
    THEN RepliesTo(keys, namespace)
    ELSE {Ok(None)}

\* wrapper.super_lookup(keys, namespace, scope, _templar=templar,
\* _variables=variables, _process_scope=..., _process_results=..., jinja2_native=...)
SuperLookup(keys, namespace, scope, templar, variables, process_scope, process_results, jinja2_native, use_native, reply, rendering) ==
    /\ pc = "ready"
    /\ LET done == super_lookup(keys, namespace, scope, templar, variables, process_scope,
                                process_results, jinja2_native, use_native, reply, rendering)
       IN call' = Called("super_lookup",
                         <<keys, namespace, scope, templar, variables, process_scope,
                           process_results, jinja2_native>>,
                         done.ret, done.backend, reply)
    /\ UNCHANGED <<pc, configs, environ, config, kheops>>

----------------------------------------------------------------------------
(* The inputs of the scope builders and of super_lookup *)

MaxFields == 2

\* the values of a scope: a variable that is set and one that is not
Exprs == {S("inventory_hostname"), S("missing_var")}

FieldName(i) == PyStr(<<"field", ToString(i)>>)

\* the scopes given: none, and every mapping of at most MaxFields fields
ScopeSpecs ==
    {None} \cup UNION {{PyDict([i \in 1..n |-> <<FieldName(i), e[i]>>]) : e \in [1..n -> Exprs]} :
                         n \in 0..MaxFields}

\* the variables given
HostVars ==
    {None, PyDict(<<>>), PyDict(<< <<S("inventory_hostname"), S("host1")>> >>)}

\* the template engines given: none, one that renders every expression, one
\* for which missing_var is not defined and one that fails on it otherwise
Templars ==
    {None, Templar({}, {}), Templar({S("missing_var")}, {}), Templar({}, {S("missing_var")})}

ProcessScopes == {None, S("vars"), S("jinja"), S("none")}

ProcessResults == {None, S("jinja")}

\* the sources of the wrappers the scope is built on
ScopeConfigs ==
    {None,
     PyList(<<PyDict(<< <<S("process_scope"), S("vars")>>,
                        <<S("scope"), PyDict(<< <<S("node"), S("inventory_hostname")>> >>)>>,
                        <<S("keys"), S("a")>> >>)>>),
     PyList(<<PyDict(<< <<S("scope"), PyDict(<<>>)>>,
                        <<S("process_results"), S("jinja")>> >>)>>)}

\* and their environments
ScopeEnvironments ==
    {[v \in {} |-> <<>>], "ANSIBLE_KHEOPS_SCOPE" :> <<"node">>}

SuperKeys == {None, S("a"), PyStr(<<"n", "/", "a", "/", "b">>)}

Renderings == {Ok(None), Raise("AnsibleError")}

\* One construction, and one call on the wrapper it returned: a call changes
\* nothing but the record of the call.
NextScope ==
    \/ \E cfgs \in ScopeConfigs, env \in ScopeEnvironments :
          Construct(cfgs, env, TRUE)
    \/ /\ call.op = "__init__"
       /\ \E host_vars \in HostVars, scope \in ScopeSpecs :
             GetScopeFromHostInventory(host_vars, scope)
    \/ /\ call.op = "__init__"
       /\ \E host_vars \in HostVars, templar \in Templars, scope \in ScopeSpecs,
             jinja2_native \in BOOLEAN, use_native \in BOOLEAN :
             GetScopeFromJinja(host_vars, templar, scope, jinja2_native, use_native)
    \/ /\ call.op = "__init__"
       /\ \E keys \in SuperKeys, scope \in ScopeSpecs, templar \in Templars,
             variables \in HostVars, process_scope \in ProcessScopes,
             process_results \in ProcessResults, rendering \in Renderings :
             \E reply \in SuperRepliesTo(keys, None, scope, templar, variables, process_scope) :
                SuperLookup(keys, None, scope, templar, variables, process_scope,
                            process_results, FALSE, TRUE, reply, rendering)

SpecScope == Init /\ [][NextScope]_vars

----------------------------------------------------------------------------
(* The scope builders: C12, C13 *)

\* the direct strategy was called with a mapping of variables
C13_Called == call.op = "get_scope_from_host_inventory" /\ IsDict(call.args[1])

\* the scope with the fields of spec, each holding the value of the variable
\* it names, None when the variable is not set
C13_Resolved(spec, host_vars) ==
    PyDict([i \in 1..Len(spec.v) |-> <<spec.v[i][1], DictGet(host_vars, spec.v[i][2], None)>>])

C12_Spec == IF Truthy(call.args[3]) THEN call.args[3] ELSE DictGet(config, S("scope"), None)

\* the templated strategy was called with a template engine, on a scope spec
\* none of whose expressions names a variable that is not defined
C12_Called ==
    /\ call.op = "get_scope_from_jinja"
    /\ ~IsNone(call.args[2])
    /\ IsDict(C12_Spec)
    /\ \A i \in 1..Len(C12_Spec.v) : C12_Spec.v[i][2] \notin call.args[2].undefined

\* C12: the templated strategy returns a scope when expressions fail with an
\* error that is not an undefined variable, and each such field holds its
\* expression, unevaluated.
C12_KeepsExpression ==
    C12_Called =>
        /\ Returned(call.ret)
        /\ \A i \in 1..Len(C12_Spec.v) :
              C12_Spec.v[i][2] \in call.args[2].broken =>
                 /\ DictHas(call.ret.val, C12_Spec.v[i][1])
                 /\ DictGet(call.ret.val, C12_Spec.v[i][1], None) = C12_Spec.v[i][2]

----------------------------------------------------------------------------
(* super_lookup: C15, C14 *)

\* the strategy super_lookup builds the scope with
C15_Strategy ==
    IF Truthy(call.args[6]) THEN call.args[6] ELSE DictGet(config, S("process_scope"), None)

\* the scope spec super_lookup builds the scope from
C15_Spec == IF Truthy(call.args[3]) THEN call.args[3] ELSE DictGet(config, S("scope"), None)

\* super_lookup was called with the templated strategy and without a
\* template engine
C15_NoEngine ==
    call.op = "super_lookup" /\ C15_Strategy = S("jinja") /\ IsNone(call.args[4])

\* super_lookup was called with the templated strategy and an engine for
\* which an expression of the scope names a variable that is not defined,
\* and that renders every expression before it
C15_Undefined ==
    /\ call.op = "super_lookup" /\ C15_Strategy = S("jinja") /\ ~IsNone(call.args[4])
    /\ IsDict(C15_Spec)
    /\ \E i \in 1..Len(C15_Spec.v) :
          /\ C15_Spec.v[i][2] \in call.args[4].undefined
          /\ \A j \in 1..(i - 1) : C15_Spec.v[j][2] \notin call.args[4].broken

\* C15: super_lookup with the templated strategy raises AssertionError when
\* it has no template engine and AnsibleUndefinedVariable when an expression
\* of the scope names a variable that is not defined, and in both cases
\* makes no call on the backend.
C15_ScopeFailurePrevents ==
    /\ C15_NoEngine => (call.ret = Raise("AssertionError") /\ call.backend = <<>>)
    /\ C15_Undefined => (call.ret = Raise("AnsibleUndefinedVariable") /\ call.backend = <<>>)

\* super_lookup rendered the first field of the scope, met a variable that
\* is not defined in the second, raised and made no call on the backend
C15_Witness ==
    /\ C15_Undefined
    /\ kheops
    /\ call.args[1] = S("a")
    /\ call.args[3] = PyDict(<< <<FieldName(1), S("inventory_hostname")>>,
                                <<FieldName(2), S("missing_var")>> >>)
    /\ call.ret = Raise("AnsibleUndefinedVariable")
    /\ call.backend = <<>>

\* the scopes, the keys and the variables given in a session
SessionScopes == {None, PyDict(<< <<FieldName(1), S("missing_var")>> >>)}

SessionKeys == {S("a"), PyStr(<<"n", "/", "a", "/", "b">>)}

SessionVars == {None, PyDict(<< <<S("inventory_hostname"), S("host1")>> >>)}

\* One construction, and then calls on the wrapper it returned, any number
\* of them in any order.
NextSession ==
    \/ \E cfgs \in ScopeConfigs : Construct(cfgs, [v \in {} |-> <<>>], TRUE)
    \/ \E keys \in SessionKeys, scope \in SessionScopes :
          \E reply \in RepliesTo(keys, None) : Lookup(keys, None, scope, None, reply)
    \/ \E host_vars \in SessionVars, scope \in SessionScopes :
          GetScopeFromHostInventory(host_vars, scope)
    \/ \E host_vars \in SessionVars, templar \in Templars, scope \in SessionScopes,
          use_native \in BOOLEAN :
          GetScopeFromJinja(host_vars, templar, scope, FALSE, use_native)
    \/ \E scope \in SessionScopes, templar \in Templars, variables \in SessionVars,
          process_scope \in {None, S("vars")}, rendering \in Renderings :
          \E reply \in SuperRepliesTo(S("a"), None, scope, templar, variables,
                                      process_scope) :
             SuperLookup(S("a"), None, scope, templar, variables, process_scope, None,
                         FALSE, TRUE, reply, rendering)

SpecSession == Init /\ [][NextSession]_vars

\* a call on the wrapper leaves the wrapper as it was
C14_Unchanged ==
    pc = "ready" =>
        /\ pc' = pc
        /\ config' = config
        /\ kheops' = kheops
        /\ configs' = configs
        /\ environ' = environ

\* the configuration is the one the construction resolved, and the outcome
\* of the last call is the one its arguments, this configuration and the
\* answers of the backend and of the template engine give
C14_SameResult ==
    pc = "ready" =>
        /\ config = get_config(configs, environ).val
        /\ call.op = "lookup" =>
              call.ret = lookup(call.args[1], call.args[2], call.args[3], call.args[4],
                                call.reply).ret
        /\ call.op = "get_scope_from_host_inventory" =>
              call.ret = get_scope_from_host_inventory(call.args[1], call.args[2])
        /\ call.op = "get_scope_from_jinja" =>
              \E use_native \in BOOLEAN :
                 call.ret = get_scope_from_jinja(call.args[1], call.args[2], call.args[3],
                                                 call.args[4], use_native)
        /\ call.op = "super_lookup" =>
              \E use_native \in BOOLEAN, rendering \in Renderings :
                 call.ret = super_lookup(call.args[1], call.args[2], call.args[3],
                                         call.args[4], call.args[5], call.args[6],
                                         call.args[7], call.args[8], use_native,
                                         call.reply, rendering).ret

====
